---- MODULE Spec2Model ----
(***************************************************************************)
(* Model of the rainmaker agent's OTA update and rollback engine           *)
(* (src/rainmaker/src/ota.rs) together with the part of Rainmaker::start   *)
(* (src/rainmaker/src/lib.rs) that runs it.                                *)
(*                                                                         *)
(* The device is modelled over several boots.  Flash (the two firmware     *)
(* slots, the boot selection, the NVS key "ota_job_id") survives a reset;  *)
(* everything else (the in_progress mutex, the threads, the update handle, *)
(* the messages published during this boot) is rebuilt at boot.            *)
(*                                                                         *)
(* The second part models the agent and the synchronization router:       *)
(* Rainmaker::init / register_node / start, the construction of Devices,  *)
(* and the two delivery threads (remote updates over MQTT, writes of the  *)
(* local-control properties) that dispatch to Device callbacks.           *)
(* Spec runs the OTA engine, SetupSpec the construction of the Devices,   *)
(* RouterSpec the agent and the router.                                    *)
(***************************************************************************)
EXTENDS Integers, Sequences, FiniteSets, TLC

(* ---- bounds of the model ---- *)
MaxImageLen == 2
MaxBoots == 2
MaxNotifications == 2
MaxZeroReads == 1
MaxInits == 3
MaxMessages == 2
MaxParams == 2
MaxRegs == 2

(* ---- program constants ---- *)
HTTPS_OTA_BUFFER_LEN == 2048

JobIds == {"j1", "j2"}
NoJob == "none"
ApplyThreads == {1, 2}
NoThread == 0
Partitions == {0, 1}

NodeId == "n1"
NoAgent == [node_id |-> "", node |-> FALSE, local_ctrl |-> FALSE]
NodeDevices == {"LED", "Fan"}
DeviceKeys == NodeDevices \cup {"Ghost"}
ParamNames == {"Power", "Hue"}
Submaps == {[Power |-> TRUE], [Power |-> FALSE]}
Origins == {"remote", "local"}
Threads == Origins \cup {"main"}
NoCb == 0
Callbacks == {1, 2}

VARIABLES
    nvsJobId,       \* NVS namespace "rmaker_ota", key "ota_job_id" (NoJob: key absent)
    slotState,      \* state marker of each firmware slot
    running,        \* the slot the device is running from
    bootPartition,  \* the slot the bootloader will start at the next reset
    boots,          \* number of resets so far
    bootCause,      \* what caused the last reset
    resetReq,       \* "none", or the reason the device is resetting right now
    in_progress,    \* value inside RmakerOta::ota_in_progress
    lockHolder,     \* thread holding the ota_in_progress mutex
    mainPc,         \* main thread: "boot" (before manage_rollback), "running"
    bootJob,        \* what manage_rollback read from NVS ("unread" before it ran)
    bootSlot,       \* the running slot's state verify_ota read ("unread" if it did not)
    valPc,          \* validation thread position
    valJob,         \* job id handed to the validation thread
    valConnected,   \* what is_mqtt_connected() answered
    spawned,        \* validation threads spawned in this boot
    pc,             \* position of each MQTT delivery thread inside apply_ota
    job,            \* ota_job_id argument of the invocation
    contentLen,     \* Content-Length the response advertised
    image_len,      \* image_len (u32)
    total_read_len, \* total_read_len (u32)
    delivered,      \* bytes the response has delivered so far
    target,         \* bytes written to the update target by the open update
    saves,          \* times this invocation persisted its job id
    overlapped,     \* the invocation was made while another one was in flight
    result,         \* how the last invocation of the thread returned
    published,      \* OTA status messages published in this boot, in order
    notified,       \* OTA notifications delivered in this boot
    zeroReads,      \* zero-length reads seen in this boot
    agent,          \* the RAINMAKER OnceLock: NoAgent or the Rainmaker struct
    lastInit,       \* what the last Rainmaker::init call returned
    inits,          \* Rainmaker::init calls so far
    startPc,        \* position of the main thread inside Rainmaker::start
    subscribed,     \* the remote-parameter subscription is installed
    devParams,      \* Device::params of each device: the names, in order
    devCb,          \* Device::callback of each device (NoCb: None)
    regs,           \* the callbacks register_callback was given, per device, in order
    addCalls,       \* add_param calls so far
    devAttrs,       \* Device::attributes of each device
    attrCall,       \* the last add_attribute call and how it ended
    rpc,            \* position of each delivery thread
    payload,        \* the mapping {device -> {param -> value}} being handled
    wire,           \* local write: property name, flags, whether a key is escaped
    remaining,      \* device keys the loop has not visited yet
    cur,            \* device whose callback is running
    calls,          \* callback invocations of this handling, in order
    setStatus,      \* status of the last SetPropertyValues response
    outbound,       \* messages each thread has published since its last delivery
    handled,        \* updates delivered so far
    ctrlReq,        \* the last command the control endpoint decoded
    ctrlResp,       \* the response the control endpoint encoded for it
    timer,          \* esp_timer_get_time(): microseconds since boot
    pinLow,         \* the button is held down (the pin is at low level)
    intrType,       \* interrupt type the pin driver is set to
    intrEnabled,    \* the pin interrupt is enabled
    notification,   \* the ISR has notified and poll has not yet taken it
    callbacks,      \* GPIDriver::callbacks[..callbacks_len], in registration order
    pin_pressed_micros,  \* GPIDriver::pin_pressed_micros
    next_press_interval, \* GPIDriver::next_press_interval
    next_press_printed,  \* GPIDriver::next_press_printed
    next_press_title,    \* GPIDriver::next_press_title
    lastPoll        \* what the last poll found and which callbacks it invoked

flashVars == <<nvsJobId, slotState, running, bootPartition, boots, bootCause, resetReq>>
lockVars == <<in_progress, lockHolder>>
mainVars == <<mainPc, bootJob, bootSlot, spawned>>
valVars == <<valPc, valJob, valConnected>>
applyVars == <<pc, job, contentLen, image_len, total_read_len, delivered, target,
               saves, overlapped, result>>
envVars == <<published, notified, zeroReads>>
otaVars == <<flashVars, lockVars, mainVars, valVars, applyVars, envVars>>
agentVars == <<agent, lastInit, inits, startPc, subscribed>>
deviceVars == <<devParams, devCb, regs, addCalls, devAttrs, attrCall>>
threadVars == <<rpc, payload, wire, remaining, cur, calls, setStatus>>
chanVars == <<outbound, handled>>
ctrlVars == <<ctrlReq, ctrlResp>>
pinVars == <<timer, pinLow, intrType, intrEnabled, notification>>
driverVars == <<callbacks, pin_pressed_micros, next_press_interval, next_press_printed,
                next_press_title, lastPoll>>
gpiVars == <<pinVars, driverVars>>
routerVars == <<agentVars, deviceVars, threadVars, chanVars, ctrlVars>>
vars == <<otaVars, routerVars, gpiVars>>

Other(p) == 1 - p
Min(a, b) == IF a < b THEN a ELSE b

(* The image is the byte sequence 1, 2, ..., L: byte i is the i-th to arrive. *)
ImageBytes(from, n) == [i \in 1..n |-> from + i]

(* report_status: one message on node/<node_id>/otastatus *)
StatusMsg(j, status, info) == [ota_job_id |-> j, status |-> status, info |-> info]
report_status(pub, j, status, info) == Append(pub, StatusMsg(j, status, info))

(* ---------------------------------------------------------------------- *)
(* State after power-on of a device that carries no pending update.       *)
(* ---------------------------------------------------------------------- *)
(* RmakerOta::new and the start of every boot: RAM state *)
BootRam ==
    /\ in_progress' = FALSE
    /\ lockHolder' = NoThread
    /\ mainPc' = "boot"
    /\ bootJob' = "unread"
    /\ bootSlot' = "unread"
    /\ spawned' = 0
    /\ valPc' = "none"
    /\ valJob' = NoJob
    /\ valConnected' = FALSE
    /\ pc' = [t \in ApplyThreads |-> "idle"]
    /\ job' = [t \in ApplyThreads |-> NoJob]
    /\ contentLen' = [t \in ApplyThreads |-> 0]
    /\ image_len' = [t \in ApplyThreads |-> 0]
    /\ total_read_len' = [t \in ApplyThreads |-> 0]
    /\ delivered' = [t \in ApplyThreads |-> 0]
    /\ target' = <<>>
    /\ saves' = [t \in ApplyThreads |-> 0]
    /\ overlapped' = [t \in ApplyThreads |-> FALSE]
    /\ result' = [t \in ApplyThreads |-> "none"]
    /\ published' = <<>>
    /\ notified' = 0
    /\ zeroReads' = 0

OtaInit ==
    /\ nvsJobId = NoJob
    /\ \E s \in {"Valid", "Unknown"} : slotState = [p \in Partitions |-> IF p = 0 THEN s ELSE "Unknown"]
    /\ running = 0
    /\ bootPartition = 0
    /\ boots = 0
    /\ bootCause = "power"
    /\ resetReq = "none"
    /\ in_progress = FALSE
    /\ lockHolder = NoThread
    /\ mainPc = "boot"
    /\ bootJob = "unread"
    /\ bootSlot = "unread"
    /\ spawned = 0
    /\ valPc = "none"
    /\ valJob = NoJob
    /\ valConnected = FALSE
    /\ pc = [t \in ApplyThreads |-> "idle"]
    /\ job = [t \in ApplyThreads |-> NoJob]
    /\ contentLen = [t \in ApplyThreads |-> 0]
    /\ image_len = [t \in ApplyThreads |-> 0]
    /\ total_read_len = [t \in ApplyThreads |-> 0]
    /\ delivered = [t \in ApplyThreads |-> 0]
    /\ target = <<>>
    /\ saves = [t \in ApplyThreads |-> 0]
    /\ overlapped = [t \in ApplyThreads |-> FALSE]
    /\ result = [t \in ApplyThreads |-> "none"]
    /\ published = <<>>
    /\ notified = 0
    /\ zeroReads = 0

(***************************************************************************)
(* The agent and the router before the application has done anything.     *)
(***************************************************************************)
AgentInit ==
    /\ agent = NoAgent
    /\ lastInit = "none"
    /\ inits = 0
    /\ startPc = "off"
    /\ subscribed = FALSE

ThreadInit ==
    /\ rpc = [o \in Origins |-> "idle"]
    /\ payload = [o \in Origins |-> <<>>]
    /\ wire = [o \in Origins |-> [name |-> "params", flags |-> 0, escaped |-> FALSE]]
    /\ remaining = [o \in Origins |-> {}]
    /\ cur = [o \in Origins |-> "none"]
    /\ calls = [o \in Origins |-> <<>>]
    /\ setStatus = "none"

ChanInit ==
    /\ outbound = [t \in Threads |-> <<>>]
    /\ handled = 0

(* the control endpoint has not been called *)
CtrlInit ==
    /\ ctrlReq = [msg |-> "none"]
    /\ ctrlResp = [msg |-> "none"]

TimerStart == 1000000

(* GPIDriver::new: the pin notifies at low level, no callback, not pressed *)
GpiInit ==
    /\ timer = TimerStart
    /\ pinLow = FALSE
    /\ intrType = "LowLevel"
    /\ intrEnabled = TRUE
    /\ notification = FALSE
    /\ callbacks = <<>>
    /\ pin_pressed_micros = 0
    /\ next_press_interval = 0
    /\ next_press_printed = TRUE
    /\ next_press_title = ""
    /\ lastPoll = [found |-> "none", interval |-> 0, invoked |-> <<>>]

(* Device::new: no parameter, no callback *)
DeviceInit ==
    /\ devParams = [d \in NodeDevices |-> <<>>]
    /\ devCb = [d \in NodeDevices |-> NoCb]
    /\ regs = [d \in NodeDevices |-> <<>>]
    /\ addCalls = 0
    /\ devAttrs = [d \in NodeDevices |-> <<>>]
    /\ attrCall = [result |-> "none"]

(* the devices as the application has built them when it registers the    *)
(* node: one parameter each, a callback on any of them                    *)
BuiltDevices ==
    /\ devParams = [d \in NodeDevices |-> <<"Power">>]
    /\ devCb \in [NodeDevices -> {NoCb, 1}]
    /\ regs = [d \in NodeDevices |-> IF devCb[d] = NoCb THEN <<>> ELSE <<1>>]
    /\ addCalls = 2
    /\ devAttrs = [d \in NodeDevices |-> <<>>]
    /\ attrCall = [result |-> "none"]

Init == OtaInit /\ AgentInit /\ DeviceInit /\ ThreadInit /\ ChanInit /\ CtrlInit /\ GpiInit

(* the application has initialised the agent and, unless it forgot to,    *)
(* registered the node (led.rs main)                                       *)
Initialised ==
    /\ \E n \in BOOLEAN : agent = [node_id |-> NodeId, node |-> n, local_ctrl |-> FALSE]
    /\ lastInit = "Ok"
    /\ inits = 1
    /\ startPc = "off"
    /\ subscribed = FALSE

RouterInit ==
    /\ OtaInit
    /\ slotState[0] = "Valid"
    /\ Initialised
    /\ BuiltDevices
    /\ ThreadInit
    /\ ChanInit
    /\ CtrlInit
    /\ GpiInit

Powered == resetReq = "none"

(* the positions of apply_ota between submitting the request and          *)
(* returning or resetting                                                  *)
InFlight == {"submit", "loop", "complete", "save", "delay"}

(* ---------------------------------------------------------------------- *)
(* otafetch_callback and RmakerOta::apply_ota, one MQTT delivery thread t *)
(* ---------------------------------------------------------------------- *)

(* mutant: the OTA subscription is installed before manage_rollback runs *)
otafetch_callback_Early(t) ==
    /\ Powered
    /\ pc[t] = "idle"
    /\ notified < MaxNotifications
    /\ \E j \in JobIds : job' = [job EXCEPT ![t] = j]
    /\ pc' = [pc EXCEPT ![t] = "lock"]
    /\ overlapped' = [overlapped EXCEPT ![t] = \E u \in ApplyThreads \ {t} : pc[u] \in InFlight]
    /\ saves' = [saves EXCEPT ![t] = 0]
    /\ result' = [result EXCEPT ![t] = "none"]
    /\ notified' = notified + 1
    /\ UNCHANGED <<flashVars, lockVars, mainVars, valVars, contentLen, image_len,
                   total_read_len, delivered, target, published, zeroReads>>
    /\ UNCHANGED <<routerVars, gpiVars>>

(* otafetch_callback: a notification {ota_job_id, url} arrives on the      *)
(* subscription installed by start() and apply_ota is called.             *)
otafetch_callback(t) ==
    /\ Powered
    /\ mainPc = "running"
    /\ pc[t] = "idle"
    /\ notified < MaxNotifications
    /\ \E j \in JobIds : job' = [job EXCEPT ![t] = j]
    /\ pc' = [pc EXCEPT ![t] = "lock"]
    /\ overlapped' = [overlapped EXCEPT ![t] = \E u \in ApplyThreads \ {t} : pc[u] \in InFlight]
    /\ saves' = [saves EXCEPT ![t] = 0]
    /\ result' = [result EXCEPT ![t] = "none"]
    /\ notified' = notified + 1
    /\ UNCHANGED <<flashVars, lockVars, mainVars, valVars, contentLen, image_len,
                   total_read_len, delivered, target, published, zeroReads>>
    /\ UNCHANGED <<routerVars, gpiVars>>

(* mutant: the lock is taken without waiting for its holder *)
CanLock_NoWait(t) == TRUE

(* self.ota_in_progress.lock(): blocks until the mutex is free *)
CanLock(t) == lockHolder = NoThread

ApplyLock(t) ==
    /\ Powered
    /\ pc[t] = "lock"
    /\ CanLock(t)
    /\ lockHolder' = t
    /\ pc' = [pc EXCEPT ![t] = "check"]
    /\ UNCHANGED <<flashVars, in_progress, mainVars, valVars, job, contentLen, image_len,
                   total_read_len, delivered, target, saves, overlapped, result, envVars>>
    /\ UNCHANGED <<routerVars, gpiVars>>

(* mutant: the guard outlives the return *)
ApplyReturn_KeepsLock(t, res) ==
    /\ pc' = [pc EXCEPT ![t] = "idle"]
    /\ result' = [result EXCEPT ![t] = res]
    /\ overlapped' = [overlapped EXCEPT ![t] = FALSE]
    /\ contentLen' = [contentLen EXCEPT ![t] = 0]
    /\ image_len' = [image_len EXCEPT ![t] = 0]
    /\ total_read_len' = [total_read_len EXCEPT ![t] = 0]
    /\ delivered' = [delivered EXCEPT ![t] = 0]
    /\ target' = <<>>
    /\ UNCHANGED <<flashVars, lockVars, mainVars, valVars, job, saves, envVars>>

(* apply_ota returns (Ok or Err): the guard and the locals (response, the   *)
(* open update) are dropped, the callback ends                             *)
ApplyReturn(t, res) ==
    /\ pc' = [pc EXCEPT ![t] = "idle"]
    /\ result' = [result EXCEPT ![t] = res]
    /\ overlapped' = [overlapped EXCEPT ![t] = FALSE]
    /\ lockHolder' = IF lockHolder = t THEN NoThread ELSE lockHolder
    /\ contentLen' = [contentLen EXCEPT ![t] = 0]
    /\ image_len' = [image_len EXCEPT ![t] = 0]
    /\ total_read_len' = [total_read_len EXCEPT ![t] = 0]
    /\ delivered' = [delivered EXCEPT ![t] = 0]
    /\ target' = <<>>
    /\ UNCHANGED <<flashVars, in_progress, mainVars, valVars, job, saves, envVars>>

(* if *in_progress == true { warn; return Ok(()) } *)
ApplyCheck(t) ==
    /\ Powered
    /\ pc[t] = "check"
    /\ IF in_progress
         THEN ApplyReturn(t, "already")
         ELSE /\ pc' = [pc EXCEPT ![t] = "submit"]
              /\ UNCHANGED <<flashVars, lockVars, mainVars, valVars, job, contentLen,
                             image_len, total_read_len, delivered, target, saves,
                             overlapped, result, envVars>>
    /\ UNCHANGED <<routerVars, gpiVars>>

(* connection, request, submit fail: `?` returns the error *)
ApplySubmitErr(t) ==
    /\ Powered
    /\ pc[t] = "submit"
    /\ ApplyReturn(t, "err")
    /\ UNCHANGED <<routerVars, gpiVars>>

(* submit succeeds with Content-Length L: image_len = L as u32 (the cast   *)
(* is the identity below 2^32, and every length of the model is), the     *)
(* "Starting OTA download" report, EspOta::new, initiate_update            *)
ApplySubmit(t) ==
    /\ Powered
    /\ pc[t] = "submit"
    /\ \E L \in 0..MaxImageLen :
         /\ contentLen' = [contentLen EXCEPT ![t] = L]
         /\ image_len' = [image_len EXCEPT ![t] = L]
    /\ total_read_len' = [total_read_len EXCEPT ![t] = 0]
    /\ delivered' = [delivered EXCEPT ![t] = 0]
    /\ published' = report_status(published, job[t], "in-progress", "Starting OTA download")
    /\ target' = <<>>
    /\ pc' = [pc EXCEPT ![t] = "loop"]
    /\ UNCHANGED <<flashVars, lockVars, mainVars, valVars, job, saves, overlapped, result,
                   notified, zeroReads>>
    /\ UNCHANGED <<routerVars, gpiVars>>

(* response.read(&mut buff)? fails *)
ApplyReadErr(t) ==
    /\ Powered
    /\ pc[t] = "loop"
    /\ ApplyReturn(t, "err")
    /\ UNCHANGED <<routerVars, gpiVars>>

(* read_len == 0: continue *)
ApplyReadZero(t) ==
    /\ Powered
    /\ pc[t] = "loop"
    /\ zeroReads < MaxZeroReads
    /\ zeroReads' = zeroReads + 1
    /\ UNCHANGED <<flashVars, lockVars, mainVars, valVars, applyVars, published, notified>>
    /\ UNCHANGED <<routerVars, gpiVars>>

(* mutant: the whole chunk but its last byte is written *)
WriteChunk_DropsLast(tgt, from, n) == tgt \o ImageBytes(from, n - 1)

(* ota_update.write(&buff[..read_len]) : the bytes just read are appended *)
WriteChunk(tgt, from, n) == tgt \o ImageBytes(from, n)

(* if total_read_len == image_len { break } *)
LoopDone(total, len) == total = len

(* a read of n > 0 bytes, written to the update target, then counted *)
ApplyReadWrite(t) ==
    /\ Powered
    /\ pc[t] = "loop"
    /\ \E n \in 1..Min(HTTPS_OTA_BUFFER_LEN, contentLen[t] - delivered[t]) :
         LET total == total_read_len[t] + n IN
         /\ delivered' = [delivered EXCEPT ![t] = delivered[t] + n]
         /\ target' = WriteChunk(target, delivered[t], n)
         /\ total_read_len' = [total_read_len EXCEPT ![t] = total]
         /\ pc' = [pc EXCEPT ![t] = IF LoopDone(total, image_len[t]) THEN "complete" ELSE "loop"]
    /\ UNCHANGED <<flashVars, lockVars, mainVars, valVars, job, contentLen, image_len,
                   saves, overlapped, result, envVars>>
    /\ UNCHANGED <<routerVars, gpiVars>>

(* ota_update.write(..)? fails after a read of n > 0 bytes *)
ApplyWriteErr(t) ==
    /\ Powered
    /\ pc[t] = "loop"
    /\ contentLen[t] - delivered[t] > 0
    /\ ApplyReturn(t, "err")
    /\ UNCHANGED <<routerVars, gpiVars>>

(* ota_update.complete()? : the written slot becomes the boot slot *)
ApplyComplete(t) ==
    /\ Powered
    /\ pc[t] = "complete"
    /\ slotState' = [slotState EXCEPT ![Other(running)] = "Unverified"]
    /\ bootPartition' = Other(running)
    /\ pc' = [pc EXCEPT ![t] = "save"]
    /\ UNCHANGED <<nvsJobId, running, boots, bootCause, resetReq, lockVars, mainVars, valVars,
                   job, contentLen, image_len, total_read_len, delivered, target, saves,
                   overlapped, result, envVars>>
    /\ UNCHANGED <<routerVars, gpiVars>>

ApplyCompleteErr(t) ==
    /\ Powered
    /\ pc[t] = "complete"
    /\ ApplyReturn(t, "err")
    /\ UNCHANGED <<routerVars, gpiVars>>

(* mutant: the "Rebooting" report without the job id being persisted *)
ApplySave_ReportsOnly(t) ==
    /\ Powered
    /\ pc[t] = "save"
    /\ saves' = [saves EXCEPT ![t] = saves[t] + 1]
    /\ published' = report_status(published, job[t], "in-progress",
                                  "Download Complete. Rebooting to new firmware")
    /\ pc' = [pc EXCEPT ![t] = "delay"]
    /\ UNCHANGED <<flashVars, lockVars, mainVars, valVars, job, contentLen, image_len,
                   total_read_len, delivered, target, overlapped, result, notified, zeroReads>>
    /\ UNCHANGED <<routerVars, gpiVars>>

(* nvs.set_bytes("ota_job_id", ..)? then the "Rebooting" report *)
ApplySave(t) ==
    /\ Powered
    /\ pc[t] = "save"
    /\ nvsJobId' = job[t]
    /\ saves' = [saves EXCEPT ![t] = saves[t] + 1]
    /\ published' = report_status(published, job[t], "in-progress",
                                  "Download Complete. Rebooting to new firmware")
    /\ pc' = [pc EXCEPT ![t] = "delay"]
    /\ UNCHANGED <<slotState, running, bootPartition, boots, bootCause, resetReq, lockVars,
                   mainVars, valVars, job, contentLen, image_len, total_read_len, delivered,
                   target, overlapped, result, notified, zeroReads>>
    /\ UNCHANGED <<routerVars, gpiVars>>

(* Nvs::new or set_bytes fails *)
ApplySaveErr(t) ==
    /\ Powered
    /\ pc[t] = "save"
    /\ ApplyReturn(t, "err")
    /\ UNCHANGED <<routerVars, gpiVars>>

(* delay_ms(10000); restart() *)
ApplyRestart(t) ==
    /\ Powered
    /\ pc[t] = "delay"
    /\ boots < MaxBoots
    /\ resetReq' = "apply"
    /\ UNCHANGED <<nvsJobId, slotState, running, bootPartition, boots, bootCause, lockVars,
                   mainVars, valVars, applyVars, envVars>>
    /\ UNCHANGED <<routerVars, gpiVars>>

(* ---------------------------------------------------------------------- *)
(* Boot-time reconciliation: Rainmaker::start calls manage_rollback once, *)
(* before the OTA subscription is installed.                               *)
(* ---------------------------------------------------------------------- *)

(* mutant: the Valid arm leaves ota_in_progress as manage_rollback set it *)
VerifyValid_KeepsFlag(j) ==
    /\ published' = report_status(published, j, "rejected", "Firmware rolled back")
    /\ in_progress' = TRUE
    /\ nvsJobId' = NoJob
    /\ UNCHANGED <<valVars, spawned>>

(* mutant: the Valid arm forgets nvs.remove("ota_job_id") *)
VerifyValid_KeepsJob(j) ==
    /\ published' = report_status(published, j, "rejected", "Firmware rolled back")
    /\ in_progress' = FALSE
    /\ UNCHANGED <<nvsJobId, valVars, spawned>>

(* SlotState::Valid arm of verify_ota *)
VerifyValid(j) ==
    /\ published' = report_status(published, j, "rejected", "Firmware rolled back")
    /\ in_progress' = FALSE
    /\ nvsJobId' = NoJob
    /\ UNCHANGED <<valVars, spawned>>

(* SlotState::Unverified arm of verify_ota: thread::spawn(validate_ota);  *)
(* flag is the value manage_rollback left in ota_in_progress              *)
VerifyUnverified(j, flag) ==
    /\ valPc' = "sleep"
    /\ valJob' = j
    /\ spawned' = spawned + 1
    /\ in_progress' = flag
    /\ UNCHANGED <<published, nvsJobId, valConnected>>

(* `other` arm of verify_ota *)
VerifyOther_KeepsFlag(j) ==
    /\ in_progress' = TRUE
    /\ nvsJobId' = NoJob
    /\ UNCHANGED <<published, valVars, spawned>>

VerifyOther(j) ==
    /\ in_progress' = FALSE
    /\ nvsJobId' = NoJob
    /\ UNCHANGED <<published, valVars, spawned>>

(* match ota.get_running_slot()?.state *)
verify_ota(j, flag) ==
    /\ bootSlot' = slotState[running]
    /\ IF slotState[running] = "Valid" THEN VerifyValid(j)
       ELSE IF slotState[running] = "Unverified" THEN VerifyUnverified(j, flag)
       ELSE VerifyOther(j)

(* mutant: manage_rollback forgets *in_progress = true *)
RollbackSome_NoFlag(j) == verify_ota(j, in_progress)

(* Some(ota_job_id) arm of manage_rollback: *in_progress = true, verify_ota *)
RollbackSome(j) == verify_ota(j, TRUE)

(* mutant: *in_progress = true is done before the match, for None too *)
RollbackNone_SetsFlag ==
    /\ in_progress' = TRUE
    /\ UNCHANGED <<nvsJobId, bootSlot, spawned, valVars, published>>

(* None arm of manage_rollback *)
RollbackNone ==
    UNCHANGED <<nvsJobId, in_progress, bootSlot, spawned, valVars, published>>

manage_rollback ==
    /\ Powered
    /\ mainPc = "boot"
    /\ bootJob' = nvsJobId
    /\ IF nvsJobId # NoJob THEN RollbackSome(nvsJobId) ELSE RollbackNone
    /\ mainPc' = "running"
    /\ UNCHANGED <<slotState, running, bootPartition, boots, bootCause, resetReq, lockHolder,
                   applyVars, notified, zeroReads>>
    /\ UNCHANGED <<routerVars, gpiVars>>

(* ---------------------------------------------------------------------- *)
(* RmakerOta::validate_ota, the spawned validation thread                  *)
(* ---------------------------------------------------------------------- *)

(* sleep(OTA_ROLLBACK_CHECK_DURATION); if rmaker_mqtt::is_mqtt_connected() *)
ValidateCheck ==
    /\ Powered
    /\ valPc = "sleep"
    /\ \E c \in BOOLEAN :
         /\ valConnected' = c
         /\ valPc' = IF c THEN "mark" ELSE "rollback"
    /\ UNCHANGED <<flashVars, lockVars, mainVars, valJob, applyVars, envVars>>
    /\ UNCHANGED <<routerVars, gpiVars>>

(* ota.mark_running_slot_valid() returns Ok *)
ValidateMark ==
    /\ Powered
    /\ valPc = "mark"
    /\ slotState' = [slotState EXCEPT ![running] = "Valid"]
    /\ valPc' = "report"
    /\ UNCHANGED <<nvsJobId, running, bootPartition, boots, bootCause, resetReq, lockVars,
                   mainVars, valJob, valConnected, applyVars, envVars>>
    /\ UNCHANGED <<routerVars, gpiVars>>

(* mutant: a failed mark_running_slot_valid() is logged and the thread    *)
(* goes on to report Success                                              *)
ValidateMarkErr_Reports ==
    /\ Powered
    /\ valPc = "mark"
    /\ valPc' = "report"
    /\ UNCHANGED <<flashVars, lockVars, mainVars, valJob, valConnected, applyVars, envVars>>
    /\ UNCHANGED <<routerVars, gpiVars>>

(* ota.mark_running_slot_valid() returns Err: logged, nothing else *)
ValidateMarkErr ==
    /\ Powered
    /\ valPc = "mark"
    /\ valPc' = "markfailed"
    /\ UNCHANGED <<flashVars, lockVars, mainVars, valJob, valConnected, applyVars, envVars>>
    /\ UNCHANGED <<routerVars, gpiVars>>

(* report_status(.., OtaSatus::Success, ..) *)
ValidateReport ==
    /\ Powered
    /\ valPc = "report"
    /\ published' = report_status(published, valJob, "success", "Firmware verified successfully")
    /\ valPc' = "remove"
    /\ UNCHANGED <<flashVars, lockVars, mainVars, valJob, valConnected, applyVars,
                   notified, zeroReads>>
    /\ UNCHANGED <<routerVars, gpiVars>>

(* mutant: the validation thread ends without nvs.remove("ota_job_id") *)
ValidateRemove_KeepsJob ==
    /\ Powered
    /\ valPc = "remove"
    /\ valPc' = "done"
    /\ UNCHANGED <<flashVars, lockVars, mainVars, valJob, valConnected, applyVars, envVars>>
    /\ UNCHANGED <<routerVars, gpiVars>>

(* nvs.remove("ota_job_id").unwrap(); the thread ends *)
ValidateRemove ==
    /\ Powered
    /\ valPc = "remove"
    /\ nvsJobId' = NoJob
    /\ valPc' = "done"
    /\ UNCHANGED <<slotState, running, bootPartition, boots, bootCause, resetReq, lockVars,
                   mainVars, valJob, valConnected, applyVars, envVars>>
    /\ UNCHANGED <<routerVars, gpiVars>>

(* mutant: the rollback arm removes the job id before the reboot *)
ValidateRollback_RemovesJob ==
    /\ Powered
    /\ valPc = "rollback"
    /\ boots < MaxBoots
    /\ slotState' = [slotState EXCEPT ![running] = "Invalid"]
    /\ bootPartition' = Other(running)
    /\ resetReq' = "rollback"
    /\ nvsJobId' = NoJob
    /\ UNCHANGED <<running, boots, bootCause, lockVars, mainVars, valVars,
                   applyVars, envVars>>
    /\ UNCHANGED <<routerVars, gpiVars>>

(* sleep(1000); ota.mark_running_slot_invalid_and_reboot() *)
ValidateRollback ==
    /\ Powered
    /\ valPc = "rollback"
    /\ boots < MaxBoots
    /\ slotState' = [slotState EXCEPT ![running] = "Invalid"]
    /\ bootPartition' = Other(running)
    /\ resetReq' = "rollback"
    /\ UNCHANGED <<nvsJobId, running, boots, bootCause, lockVars, mainVars, valVars,
                   applyVars, envVars>>
    /\ UNCHANGED <<routerVars, gpiVars>>

(* ---------------------------------------------------------------------- *)
(* Reset and the bootloader                                                *)
(* ---------------------------------------------------------------------- *)

(* The bootloader starts the selected slot.  A slot that was running      *)
(* Unverified when the reset came is aborted (marked invalid) and the     *)
(* other slot is started.  RAM is rebuilt.                                *)
Bootloader(cause) ==
    /\ LET aborted == slotState[running] = "Unverified"
           next == IF bootPartition # running THEN bootPartition
                   ELSE IF aborted THEN Other(running) ELSE running
       IN /\ slotState' = IF aborted THEN [slotState EXCEPT ![running] = "Invalid"]
                          ELSE slotState
          /\ running' = next
          /\ bootPartition' = next
    /\ boots' = boots + 1
    /\ bootCause' = cause
    /\ resetReq' = "none"
    /\ BootRam
    /\ UNCHANGED nvsJobId

(* restart() or mark_running_slot_invalid_and_reboot() takes effect *)
Boot ==
    /\ ~Powered
    /\ Bootloader(resetReq)
    /\ UNCHANGED <<routerVars, gpiVars>>

(* power is lost, or the device is reset from outside, at any point *)
PowerLoss ==
    /\ Powered
    /\ boots < MaxBoots
    /\ Bootloader("power")
    /\ UNCHANGED <<routerVars, gpiVars>>

Next ==
    \/ manage_rollback
    \/ \E t \in ApplyThreads : otafetch_callback(t)
    \/ \E t \in ApplyThreads : ApplyLock(t)
    \/ \E t \in ApplyThreads : ApplyCheck(t)
    \/ \E t \in ApplyThreads : ApplySubmit(t)
    \/ \E t \in ApplyThreads : ApplySubmitErr(t)
    \/ \E t \in ApplyThreads : ApplyReadZero(t)
    \/ \E t \in ApplyThreads : ApplyReadWrite(t)
    \/ \E t \in ApplyThreads : ApplyReadErr(t)
    \/ \E t \in ApplyThreads : ApplyWriteErr(t)
    \/ \E t \in ApplyThreads : ApplyComplete(t)
    \/ \E t \in ApplyThreads : ApplyCompleteErr(t)
    \/ \E t \in ApplyThreads : ApplySave(t)
    \/ \E t \in ApplyThreads : ApplySaveErr(t)
    \/ \E t \in ApplyThreads : ApplyRestart(t)
    \/ ValidateCheck
    \/ ValidateMark
    \/ ValidateMarkErr
    \/ ValidateReport
    \/ ValidateRemove
    \/ ValidateRollback
    \/ PowerLoss
    \/ Boot

Spec == Init /\ [][Next]_vars

(* The main thread runs manage_rollback as soon as start() reaches it, and *)
(* a requested reset takes effect.                                         *)
FairSpec == Spec /\ WF_vars(manage_rollback) /\ WF_vars(Boot)

(* The server delivers the bytes it advertised: a read that can return     *)
(* data eventually does, and a requested reset takes effect.               *)
LoopFairSpec ==
    Spec /\ WF_vars(Boot) /\ \A t \in ApplyThreads : WF_vars(ApplyReadWrite(t))

(***************************************************************************)
(* The agent: Rainmaker::init, register_node, start (lib.rs).             *)
(***************************************************************************)
Topic(id, suffix) == [node |-> id, suffix |-> suffix]
Msg(topic, body) == [topic |-> topic, body |-> body]

AlreadyInit_Never == FALSE

(* lib.rs:91: RAINMAKER.get().is_some() *)
AlreadyInit == agent # NoAgent

(* Rainmaker::init: id is what factory::get_node_id reads, "err" its error *)
Rainmaker_init ==
    /\ inits < MaxInits
    /\ inits' = inits + 1
    /\ \E id \in {NodeId, "err"} :
          IF AlreadyInit
          THEN /\ lastInit' = "AlreadyInitialized"
               /\ agent' = agent
          ELSE IF id = "err"
          THEN /\ lastInit' = "FactoryError"
               /\ agent' = agent
          ELSE IF agent # NoAgent
          THEN /\ lastInit' = "UnknownError"
               /\ agent' = agent
          ELSE /\ lastInit' = "Ok"
               /\ agent' = [node_id |-> id, node |-> FALSE, local_ctrl |-> FALSE]
    /\ UNCHANGED <<otaVars, gpiVars, ctrlVars, startPc, subscribed, deviceVars, threadVars, chanVars>>

register_node ==
    /\ agent # NoAgent
    /\ agent' = [agent EXCEPT !.node = TRUE]
    /\ UNCHANGED <<otaVars, gpiVars, ctrlVars, lastInit, inits, startPc, subscribed, deviceVars, threadVars,
                   chanVars>>

(* device.rs:111-113: the parameter is pushed onto Device::params *)
add_param(d, n) ==
    /\ addCalls < MaxParams
    /\ addCalls' = addCalls + 1
    /\ devParams' = [devParams EXCEPT ![d] = Append(@, n)]
    /\ UNCHANGED <<otaVars, gpiVars, ctrlVars, agentVars, devCb, regs, devAttrs, attrCall, threadVars, chanVars>>

register_callback_KeepsFirst(d, cb) ==
    /\ Len(regs[d]) < MaxRegs
    /\ regs' = [regs EXCEPT ![d] = Append(@, cb)]
    /\ devCb' = [devCb EXCEPT ![d] = IF @ = NoCb THEN cb ELSE @]
    /\ UNCHANGED <<otaVars, gpiVars, ctrlVars, agentVars, devParams, addCalls, devAttrs, attrCall, threadVars,
                   chanVars>>

(* device.rs:116-118: self.callback = Some(cb) *)
register_callback(d, cb) ==
    /\ Len(regs[d]) < MaxRegs
    /\ regs' = [regs EXCEPT ![d] = Append(@, cb)]
    /\ devCb' = [devCb EXCEPT ![d] = cb]
    /\ UNCHANGED <<otaVars, gpiVars, ctrlVars, agentVars, devParams, addCalls, devAttrs, attrCall, threadVars,
                   chanVars>>

SetupNext ==
    \/ Rainmaker_init
    \/ register_node
    \/ \E d \in NodeDevices, n \in ParamNames : add_param(d, n)
    \/ \E d \in NodeDevices, cb \in Callbacks : register_callback(d, cb)

SetupSpec == Init /\ [][SetupNext]_vars

(* start on an agent without a node: panic!, lib.rs:181 *)
StartNoNode ==
    /\ agent # NoAgent
    /\ ~agent.node
    /\ startPc = "off"
    /\ startPc' = "panicked"
    /\ UNCHANGED <<otaVars, gpiVars, ctrlVars, agent, lastInit, inits, subscribed, deviceVars, threadVars,
                   chanVars>>

(* lib.rs:138-142: the node configuration is published *)
StartConfig ==
    /\ agent # NoAgent
    /\ agent.node
    /\ startPc = "off"
    /\ outbound' = [outbound EXCEPT !["main"] =
                        Append(@, Msg(Topic(agent.node_id, "config"), devParams))]
    /\ startPc' = "config"
    /\ UNCHANGED <<otaVars, gpiVars, ctrlVars, agent, lastInit, inits, subscribed, deviceVars, threadVars,
                   handled>>

(* lib.rs:144-147: the initial parameter values are published *)
StartParams ==
    /\ startPc = "config"
    /\ outbound' = [outbound EXCEPT !["main"] =
                        Append(@, Msg(Topic(agent.node_id, "params/local/init"), devParams))]
    /\ startPc' = "params"
    /\ UNCHANGED <<otaVars, gpiVars, ctrlVars, agent, lastInit, inits, subscribed, deviceVars, threadVars,
                   handled>>

StartSubscribe_Republishes ==
    /\ startPc = "params"
    /\ subscribed' = TRUE
    /\ startPc' = "subscribed"
    /\ outbound' = [outbound EXCEPT !["main"] =
                        Append(@, Msg(Topic(agent.node_id, "config"), devParams))]
    /\ UNCHANGED <<otaVars, gpiVars, ctrlVars, agent, lastInit, inits, deviceVars, threadVars, handled>>

(* lib.rs:151-153: remote_params_callback is subscribed *)
StartSubscribe ==
    /\ startPc = "params"
    /\ subscribed' = TRUE
    /\ startPc' = "subscribed"
    /\ UNCHANGED <<otaVars, gpiVars, ctrlVars, agent, lastInit, inits, deviceVars, threadVars, chanVars>>

(* lib.rs:173-179: the local-control service is brought up, or is not *)
StartLocalCtrl ==
    /\ startPc = "subscribed"
    /\ \E ok \in BOOLEAN : agent' = [agent EXCEPT !.local_ctrl = ok]
    /\ startPc' = "started"
    /\ UNCHANGED <<otaVars, gpiVars, ctrlVars, lastInit, inits, subscribed, deviceVars, threadVars, chanVars>>

(* the ? of lib.rs:126, 142, 147, 153: start returns the error *)
StartErr ==
    /\ agent # NoAgent
    /\ agent.node
    /\ startPc \in {"off", "config", "params"}
    /\ startPc' = "failed"
    /\ UNCHANGED <<otaVars, gpiVars, ctrlVars, agent, lastInit, inits, subscribed, deviceVars, threadVars,
                   chanVars>>

(***************************************************************************)
(* The router.  A mapping {device -> {param -> value}} arrives from the    *)
(* cloud (remote_params_callback, on the MQTT thread) or as a write of a   *)
(* local-control property (local_ctrl_set_val, on the HTTP thread); device *)
(* callbacks run on the thread that delivers the mapping.                  *)
(***************************************************************************)
LOCAL_CTRL_FLAG_READONLY == 1

PropNames == {"config", "params", "other"}

(* the submaps a client sends to a device key *)
SubmapsOf(d) == IF d = "LED" THEN Submaps ELSE {[Power |-> TRUE]}

(* every mapping over the device keys a client can name *)
Payloads ==
    UNION {{f \in [K -> Submaps] : \A d \in K : f[d] \in SubmapsOf(d)} : K \in SUBSET DeviceKeys}

(* local_ctrl.rs:31-36: the two properties RmakerLocalCtrl::new registers *)
PropFlags(name) == IF name = "config" THEN LOCAL_CTRL_FLAG_READONLY ELSE 0

(* Node::exeute_device_callback finds the device by name *)
NodeHasDevice(d) == d \in NodeDevices

(* cb(params, handle): the callback the device holds runs with the submap *)
Call(d, params) == [device |-> d, params |-> params, cb |-> devCb[d]]

Deliver(o, pl, name, flags, esc) ==
    /\ rpc[o] \in {"idle", "done"}
    /\ handled < MaxMessages
    /\ handled' = handled + 1
    /\ payload' = [payload EXCEPT ![o] = pl]
    /\ wire' = [wire EXCEPT ![o] = [name |-> name, flags |-> flags, escaped |-> esc]]
    /\ calls' = [calls EXCEPT ![o] = <<>>]
    /\ cur' = [cur EXCEPT ![o] = "none"]
    /\ outbound' = [outbound EXCEPT ![o] = <<>>]

(* lib.rs:266-268: the payload decodes into HashMap<String, ..>, escaped   *)
(* keys included                                                           *)
remote_params_callback ==
    /\ subscribed
    /\ \E pl \in Payloads, esc \in BOOLEAN :
          /\ esc => DOMAIN pl # {}
          /\ Deliver("remote", pl, "params", 0, esc)
          /\ remaining' = [remaining EXCEPT !["remote"] = DOMAIN pl]
    /\ rpc' = [rpc EXCEPT !["remote"] = "iter"]
    /\ UNCHANGED <<otaVars, gpiVars, ctrlVars, agentVars, deviceVars, setStatus>>

(* flags: u32, its two low bits *)
FlagValues == 0..3

(* local_ctrl.rs:176-191: the arm the accessor takes *)
SetValArm(name, flags) ==
    IF flags = LOCAL_CTRL_FLAG_READONLY THEN "readonly"
    ELSE IF name = "params" THEN "params"
    ELSE "other"

(* local_ctrl.rs:175-193, on the thread that called the accessor *)
set_val(name, flags, pl, esc) ==
    IF SetValArm(name, flags) # "params"
    THEN /\ rpc' = [rpc EXCEPT !["local"] = "done"]
         /\ remaining' = [remaining EXCEPT !["local"] = {}]
    ELSE IF esc
    THEN /\ rpc' = [rpc EXCEPT !["local"] = "undecoded"]
         /\ remaining' = [remaining EXCEPT !["local"] = {}]
    ELSE /\ rpc' = [rpc EXCEPT !["local"] = "iter"]
         /\ remaining' = [remaining EXCEPT !["local"] = DOMAIN pl]

(* components local_ctrl.rs:119-135 answers the write; local_ctrl.rs:      *)
(* 175-193 is the set accessor: read-only flags return, "params" decodes   *)
(* into HashMap<&str, ..>, which fails on a key written with an escape,    *)
(* any other name is logged.                                               *)
local_ctrl_set_val ==
    /\ startPc = "started"
    /\ agent.local_ctrl
    /\ \E pl \in Payloads, name \in PropNames, esc \in BOOLEAN :
          /\ esc => DOMAIN pl # {}
          /\ Deliver("local", pl, name, PropFlags(name), esc)
          /\ set_val(name, PropFlags(name), pl, esc)
    /\ setStatus' = IF rpc'["local"] = "undecoded" THEN "none" ELSE "Success"
    /\ UNCHANGED <<otaVars, gpiVars, ctrlVars, agentVars, deviceVars>>

(* the accessor called with any flags a caller can pass *)
AccessorCall ==
    /\ \E pl \in Payloads, name \in PropNames, flags \in FlagValues, esc \in BOOLEAN :
          /\ esc => DOMAIN pl # {}
          /\ Deliver("local", pl, name, flags, esc)
          /\ set_val(name, flags, pl, esc)
    /\ UNCHANGED <<otaVars, gpiVars, ctrlVars, agentVars, deviceVars, setStatus>>

execute_callback_Twice(o, d, params) ==
    IF devCb[d] = NoCb
    THEN /\ remaining' = [remaining EXCEPT ![o] = @ \ {d}]
         /\ UNCHANGED <<rpc, cur, calls>>
    ELSE /\ calls' = [calls EXCEPT ![o] = Append(Append(@, Call(d, params)), Call(d, params))]
         /\ cur' = [cur EXCEPT ![o] = d]
         /\ rpc' = [rpc EXCEPT ![o] = "incb"]
         /\ UNCHANGED remaining

(* device.rs:130-145: nothing without a callback, else the callback runs   *)
(* with the submap                                                         *)
execute_callback(o, d, params) ==
    IF devCb[d] = NoCb
    THEN /\ remaining' = [remaining EXCEPT ![o] = @ \ {d}]
         /\ UNCHANGED <<rpc, cur, calls>>
    ELSE /\ calls' = [calls EXCEPT ![o] = Append(@, Call(d, params))]
         /\ cur' = [cur EXCEPT ![o] = d]
         /\ rpc' = [rpc EXCEPT ![o] = "incb"]
         /\ UNCHANGED remaining

Dispatch_StopsAtUnknown(o) ==
    /\ rpc[o] = "iter"
    /\ \E d \in remaining[o] :
          IF NodeHasDevice(d)
          THEN execute_callback(o, d, payload[o][d])
          ELSE /\ remaining' = [remaining EXCEPT ![o] = {}]
               /\ UNCHANGED <<rpc, cur, calls>>
    /\ UNCHANGED <<otaVars, gpiVars, ctrlVars, agentVars, deviceVars, payload, wire, setStatus, chanVars>>

(* one turn of the loop over the keys (lib.rs:269-273, local_ctrl.rs:      *)
(* 183-186): HashMap iteration visits them in no particular order          *)
Dispatch(o) ==
    /\ rpc[o] = "iter"
    /\ \E d \in remaining[o] :
          IF NodeHasDevice(d)
          THEN execute_callback(o, d, payload[o][d])
          ELSE /\ remaining' = [remaining EXCEPT ![o] = @ \ {d}]
               /\ UNCHANGED <<rpc, cur, calls>>
    /\ UNCHANGED <<otaVars, gpiVars, ctrlVars, agentVars, deviceVars, payload, wire, setStatus, chanVars>>

(* the loop is over: the handler returns *)
Finish(o) ==
    /\ rpc[o] = "iter"
    /\ remaining[o] = {}
    /\ rpc' = [rpc EXCEPT ![o] = "done"]
    /\ UNCHANGED <<otaVars, gpiVars, ctrlVars, agentVars, deviceVars, payload, wire, remaining, cur, calls,
                   setStatus, chanVars>>

update_and_report_NoName(d, params) == [device |-> "", params |-> params]

(* device.rs:162-166: the body {name: params}; it goes to the topic        *)
(* Device::new derived from the factory node id (device.rs:84-86)          *)
update_and_report(d, params) == [device |-> d, params |-> params]

(* the callback reports the values it was given (led.rs:163) *)
CbReport(o) ==
    /\ rpc[o] = "incb"
    /\ outbound' = [outbound EXCEPT ![o] =
                        Append(@, Msg(Topic(NodeId, "params/local"),
                                      update_and_report(cur[o], payload[o][cur[o]])))]
    /\ rpc' = [rpc EXCEPT ![o] = "reported"]
    /\ UNCHANGED <<otaVars, gpiVars, ctrlVars, agentVars, deviceVars, payload, wire, remaining, cur, calls,
                   setStatus, handled>>

(* device.rs:167-170: publish returns an error and unwrap panics *)
CbReportErr(o) ==
    /\ rpc[o] = "incb"
    /\ rpc' = [rpc EXCEPT ![o] = "panicked"]
    /\ UNCHANGED <<otaVars, gpiVars, ctrlVars, agentVars, deviceVars, payload, wire, remaining, cur, calls,
                   setStatus, chanVars>>

(* the callback returns to the loop *)
CbReturn(o) ==
    /\ rpc[o] \in {"incb", "reported"}
    /\ remaining' = [remaining EXCEPT ![o] = @ \ {cur[o]}]
    /\ cur' = [cur EXCEPT ![o] = "none"]
    /\ rpc' = [rpc EXCEPT ![o] = "iter"]
    /\ UNCHANGED <<otaVars, gpiVars, ctrlVars, agentVars, deviceVars, payload, wire, calls, setStatus, chanVars>>

RouterNext ==
    \/ StartNoNode
    \/ StartConfig
    \/ StartParams
    \/ StartSubscribe
    \/ StartLocalCtrl
    \/ StartErr
    \/ remote_params_callback
    \/ local_ctrl_set_val
    \/ \E o \in Origins : Dispatch(o)
    \/ \E o \in Origins : Finish(o)
    \/ \E o \in Origins : CbReport(o)
    \/ \E o \in Origins : CbReportErr(o)
    \/ \E o \in Origins : CbReturn(o)

RouterSpec == RouterInit /\ [][RouterNext]_vars

(* the agent after start has returned Ok with the local-control service up *)
Started ==
    /\ agent = [node_id |-> NodeId, node |-> TRUE, local_ctrl |-> TRUE]
    /\ lastInit = "Ok"
    /\ inits = 1
    /\ startPc = "started"
    /\ subscribed = TRUE
    /\ outbound = [t \in Threads |->
                      IF t = "main"
                      THEN <<Msg(Topic(NodeId, "config"), devParams),
                             Msg(Topic(NodeId, "params/local/init"), devParams)>>
                      ELSE <<>>]
    /\ handled = 0

AccessorInit ==
    /\ OtaInit
    /\ slotState[0] = "Valid"
    /\ BuiltDevices
    /\ ThreadInit
    /\ Started
    /\ CtrlInit
    /\ GpiInit

(* the set accessor alone, with every name and every flags value *)
AccessorNext ==
    \/ AccessorCall
    \/ Dispatch("local")
    \/ Finish("local")
    \/ CbReport("local")
    \/ CbReportErr("local")
    \/ CbReturn("local")

AccessorSpec == AccessorInit /\ [][AccessorNext]_vars

(* Device::execute_callback called on a device with a submap *)
DeviceExecute ==
    /\ rpc["local"] \in {"idle", "done"}
    /\ handled < MaxMessages
    /\ handled' = handled + 1
    /\ \E d \in NodeDevices : \E m \in SubmapsOf(d) :
          /\ payload' = [payload EXCEPT !["local"] = [x \in {d} |-> m]]
          /\ execute_callback("local", d, m)
    /\ UNCHANGED <<otaVars, gpiVars, ctrlVars, agentVars, deviceVars, wire, setStatus, outbound>>

(* a Device on its own: callbacks are registered and execute_callback is   *)
(* called                                                                  *)
DeviceNext ==
    \/ \E d \in NodeDevices, cb \in Callbacks : register_callback(d, cb)
    \/ DeviceExecute
    \/ CbReport("local")
    \/ CbReportErr("local")
    \/ CbReturn("local")
    \/ Finish("local")

DeviceSpec == Init /\ [][DeviceNext]_vars

(* ---------------------------------------------------------------------- *)
(* Device::add_attribute, called by the application while it builds a      *)
(* Device                                                                  *)
(* ---------------------------------------------------------------------- *)
AttrNames == {"serial", "model"}
AttrValues == {"v1", "v2"}

(* HashMap::insert: the mapping afterwards *)
Insert(m, k, v) == [x \in (DOMAIN m) \cup {k} |-> IF x = k THEN v ELSE m[x]]

(* HashMap::insert returns the value the key had: Some(old), or None for  *)
(* a key that was not there; Option::expect panics on None                *)
ExpectInsert(m, k) == IF k \in DOMAIN m THEN "returned" ELSE "panicked"

(* a panic on the thread that builds the devices ends it *)
Building == attrCall.result # "panicked"

(* device.rs:104-108: self.attributes.insert(name, value).expect(..)      *)
add_attribute(d, name, value) ==
    /\ Building
    /\ devAttrs' = [devAttrs EXCEPT ![d] = Insert(@, name, value)]
    /\ attrCall' = [device |-> d, name |-> name, value |-> value,
                    result |-> ExpectInsert(devAttrs[d], name)]
    /\ UNCHANGED <<otaVars, gpiVars, ctrlVars, agentVars, devParams, devCb, regs, addCalls, threadVars,
                   chanVars>>

BuildAddParam ==
    /\ Building
    /\ \E d \in NodeDevices, n \in ParamNames : add_param(d, n)

BuildRegisterCallback ==
    /\ Building
    /\ \E d \in NodeDevices, cb \in Callbacks : register_callback(d, cb)

(* the application builds its devices (led.rs init_led_device) *)
BuildNext ==
    \/ BuildAddParam
    \/ BuildRegisterCallback
    \/ \E d \in NodeDevices, name \in AttrNames, value \in AttrValues :
          add_attribute(d, name, value)

BuildSpec == Init /\ [][BuildNext]_vars

(* ---------------------------------------------------------------------- *)
(* GPIDriver: a push button on an input pin, polled by the application     *)
(* (examples gpi_driver.rs).  The pin is low while the button is held.     *)
(* The ISR notifies when the pin is at the level the interrupt type names  *)
(* and the interrupt is enabled; the interrupt is disabled once it fired.  *)
(* ---------------------------------------------------------------------- *)
MaxMicros == 6000000
MaxCallbacks == 2
MAX_CALLBACKS_COUNT == 10
PROV_RESET_PRESS_DELAY == 3000

(* time that passes between two events, in microseconds *)
Delays == {500000, 3000000}

(* set_tap_cb registers with interval 0 (gpi_driver.rs:65-70) *)
TapCb == [interval |-> 0, title |-> "tap action"]
(* reg_reset_trigger registers the provisioning reset (examples lib.rs:9-21) *)
ResetCb == [interval |-> PROV_RESET_PRESS_DELAY, title |-> "resetting WiFi Provisioning"]
(* an application callback for a press of one second *)
LongPressCb == [interval |-> 1000, title |-> "long press"]

PressCallbacks == {TapCb, ResetCb, LongPressCb}

(* the pin is at the level the interrupt type waits for *)
AtLevel(type, low) == (type = "LowLevel" /\ low) \/ (type = "HighLevel" /\ ~low)

Tick ==
    /\ \E d \in Delays :
          /\ timer + d <= MaxMicros
          /\ timer' = timer + d
    /\ UNCHANGED <<pinLow, intrType, intrEnabled, notification, driverVars>>
    /\ UNCHANGED <<otaVars, routerVars>>

(* the button goes down or up; the ISR runs if the interrupt is enabled   *)
(* for the new level (gpi_driver.rs:45-50)                                *)
ButtonChange ==
    /\ pinLow' = ~pinLow
    /\ IF intrEnabled /\ AtLevel(intrType, ~pinLow)
       THEN /\ notification' = TRUE
            /\ intrEnabled' = FALSE
       ELSE UNCHANGED <<notification, intrEnabled>>
    /\ UNCHANGED <<timer, intrType, driverVars>>
    /\ UNCHANGED <<otaVars, routerVars>>

(* gpi_driver.rs:72-87 *)
set_press_cb(cb) ==
    /\ Len(callbacks) < MaxCallbacks
    /\ callbacks' = IF Len(callbacks) >= MAX_CALLBACKS_COUNT THEN callbacks
                    ELSE Append(callbacks, cb)
    /\ UNCHANGED <<pinVars, pin_pressed_micros, next_press_interval, next_press_printed,
                   next_press_title, lastPoll>>
    /\ UNCHANGED <<otaVars, routerVars>>

(* gpi_driver.rs:148-168: the first callback whose interval is above both *)
(* the stored one and curr_interval is taken; the fields are stored only  *)
(* if the interval found is above curr_interval                           *)
update_next_press_name_interval(title0, interval0, printed0, curr_interval) ==
    LET later == {k \in 1..Len(callbacks) : /\ callbacks[k].interval > interval0
                                            /\ callbacks[k].interval > curr_interval}
        first == CHOOSE k \in later : \A j \in later : k <= j
        interval == IF later = {} THEN interval0 ELSE callbacks[first].interval
        title == IF later = {} THEN title0 ELSE callbacks[first].title
    IN  IF interval > curr_interval
        THEN [title |-> title, interval |-> interval, printed |-> FALSE]
        ELSE [title |-> title0, interval |-> interval0, printed |-> printed0]

(* gpi_driver.rs:117-130: the loop over the callbacks; sel = 0 is None *)
RECURSIVE SelectCb(_, _, _)
SelectCb(k, sel, interval) ==
    IF k > Len(callbacks) THEN sel
    ELSE SelectCb(k + 1,
                  IF sel = 0 THEN k
                  ELSE IF interval > callbacks[k].interval
                          /\ callbacks[sel].interval < callbacks[k].interval
                       THEN k
                       ELSE sel,
                  interval)

(* gpi_driver.rs:89-146.  Both readings of the timer in one call give the *)
(* same value; the cast to u32 changes nothing below 2^32 microseconds.   *)
poll ==
    LET interval == (timer - pin_pressed_micros) \div 1000
        s1 == IF pin_pressed_micros # 0 /\ interval >= next_press_interval
              THEN update_next_press_name_interval(next_press_title, next_press_interval,
                                                   TRUE, interval)
              ELSE [title |-> next_press_title, interval |-> next_press_interval,
                    printed |-> next_press_printed]
        s2 == update_next_press_name_interval(s1.title, s1.interval, s1.printed, interval)
        sel == SelectCb(1, 0, interval)
    IN  /\ IF ~notification
           THEN /\ next_press_title' = s1.title
                /\ next_press_interval' = s1.interval
                /\ next_press_printed' = s1.printed
                /\ lastPoll' = [found |-> "nothing", interval |-> interval, invoked |-> <<>>]
                /\ UNCHANGED <<pin_pressed_micros, intrType, intrEnabled, notification>>
           ELSE /\ IF pin_pressed_micros = 0
                   THEN /\ pin_pressed_micros' = timer
                        /\ intrType' = "HighLevel"
                        /\ next_press_title' = s2.title
                        /\ next_press_interval' = s2.interval
                        /\ next_press_printed' = s2.printed
                        /\ lastPoll' = [found |-> "press", interval |-> interval,
                                        invoked |-> <<>>]
                   ELSE /\ lastPoll' = [found |-> "release", interval |-> interval,
                                        invoked |-> IF sel = 0 THEN <<>>
                                                    ELSE <<callbacks[sel]>>]
                        /\ intrType' = "LowLevel"
                        /\ pin_pressed_micros' = 0
                        /\ next_press_interval' = 0
                        /\ next_press_printed' = TRUE
                        /\ next_press_title' = s1.title
                /\ IF AtLevel(intrType', pinLow)
                   THEN notification' = TRUE /\ intrEnabled' = FALSE
                   ELSE notification' = FALSE /\ intrEnabled' = TRUE
        /\ UNCHANGED <<timer, pinLow, callbacks>>
        /\ UNCHANGED <<otaVars, routerVars>>

GpiNext ==
    \/ Tick
    \/ ButtonChange
    \/ \E cb \in PressCallbacks : set_press_cb(cb)
    \/ poll

GpiSpec == Init /\ [][GpiNext]_vars

(* ---------------------------------------------------------------------- *)
(* The control endpoint of the local property protocol                    *)
(* (components local_ctrl.rs control_handler) and the get accessor         *)
(* ---------------------------------------------------------------------- *)
MaxIndices == 4

LOCAL_CTRL_TYPE_NODECONFIG == 1
LOCAL_CTRL_TYPE_PARAM == 2

(* the properties RmakerLocalCtrl::new registers, in order *)
Registry ==
    <<[name |-> "config", type |-> LOCAL_CTRL_TYPE_NODECONFIG, flags |-> LOCAL_CTRL_FLAG_READONLY],
      [name |-> "params", type |-> LOCAL_CTRL_TYPE_PARAM, flags |-> 0]>>

(* the indices of the registered properties, counted from 0 *)
Indices == 0 .. (Len(Registry) - 1)

(* the index lists a client sends *)
IndexLists == UNION {[1..n -> Indices] : n \in 0..MaxIndices}

(* local_ctrl.rs:159-173: config serialises the Node, params the current  *)
(* parameter values, any other name gives no bytes                        *)
local_ctrl_get_val(name) ==
    IF name = "config" THEN [json |-> "node", devices |-> devParams]
    ELSE IF name = "params" THEN [json |-> "param_values", devices |-> devParams]
    ELSE [json |-> "", devices |-> <<>>]

(* components local_ctrl.rs:100-108: one PropertyInfo per index, each     *)
(* filled with the same literals                                          *)
PropertyInfo(i) == [name |-> "Power", type |-> 2, flags |-> 0, value |-> <<0>>]

(* components local_ctrl.rs:82-90 *)
handle_cmd_get_property_count ==
    /\ startPc = "started"
    /\ agent.local_ctrl
    /\ ctrlReq' = [msg |-> "GetPropertyCount"]
    /\ ctrlResp' = [msg |-> "RespGetPropCount", status |-> "Success", count |-> 2]
    /\ UNCHANGED <<otaVars, gpiVars, agentVars, deviceVars, threadVars, chanVars>>

(* components local_ctrl.rs:92-117 *)
handle_cmd_get_property_values ==
    /\ startPc = "started"
    /\ agent.local_ctrl
    /\ \E indices \in IndexLists :
          /\ ctrlReq' = [msg |-> "GetPropertyValues", indices |-> indices]
          /\ ctrlResp' = [msg |-> "RespGetPropVals", status |-> "Success",
                          props |-> [k \in 1..Len(indices) |-> PropertyInfo(indices[k])]]
    /\ UNCHANGED <<otaVars, gpiVars, agentVars, deviceVars, threadVars, chanVars>>

(* the read commands of the control endpoint *)
ControlNext ==
    \/ handle_cmd_get_property_count
    \/ handle_cmd_get_property_values

ControlSpec == AccessorInit /\ [][ControlNext]_vars

(* ---------------------------------------------------------------------- *)
(* Properties                                                              *)
(* ---------------------------------------------------------------------- *)

CountStatus(pub, j, st) ==
    Cardinality({i \in 1..Len(pub) : pub[i].ota_job_id = j /\ pub[i].status = st})

(* the step in which manage_rollback runs *)
Reconciles == mainPc = "boot" /\ mainPc' = "running"

(* C1: an apply_ota invocation made while another invocation is still     *)
(* running is a no-op: it never gets past the in_progress check, so it    *)
(* starts no download, writes nothing, persists nothing, reports nothing, *)
(* however the first invocation ends.                                      *)
C1_OverlappedApplyIsNoOp ==
    \A t \in ApplyThreads : overlapped[t] => pc[t] \in {"lock", "check"}

(* C2: at most one apply_ota is in flight: the invocation that is between *)
(* the check and its return holds the lock, and every other invocation is *)
(* idle or blocked on the lock.                                            *)
C2_AtMostOneInFlight ==
    /\ Cardinality({t \in ApplyThreads : pc[t] \in InFlight}) <= 1
    /\ \A t \in ApplyThreads :
         pc[t] \in InFlight \cup {"check"} =>
            /\ lockHolder = t
            /\ \A u \in ApplyThreads \ {t} : pc[u] \in {"idle", "lock"}

C2_Witness ==
    \E t, u \in ApplyThreads : pc[t] = "loop" /\ delivered[t] > 0 /\ pc[u] = "lock"

(* C3: reconciliation with a persisted job id and the running slot Valid  *)
(* reports exactly one Rejected for that job id, removes the job id,      *)
(* leaves in_progress false and spawns no validation task.                 *)
C3_ReconcileValid ==
    [][(Reconciles /\ nvsJobId # NoJob /\ slotState[running] = "Valid") =>
          /\ published' = <<StatusMsg(nvsJobId, "rejected", "Firmware rolled back")>>
          /\ nvsJobId' = NoJob
          /\ in_progress' = FALSE
          /\ spawned' = 0
          /\ valPc' = "none"]_vars

C3_Witness ==
    /\ mainPc = "running"
    /\ bootJob \in JobIds
    /\ bootSlot = "Valid"
    /\ CountStatus(published, bootJob, "rejected") = 1

(* C4: reconciliation with a persisted job id and the running slot        *)
(* Unverified sets in_progress and schedules exactly one validation task; *)
(* it reports no status, leaves the slot markers and the job id alone.    *)
C4_ReconcileUnverified ==
    [][(Reconciles /\ nvsJobId # NoJob /\ slotState[running] = "Unverified") =>
          /\ in_progress' = TRUE
          /\ spawned' = 1
          /\ valPc' = "sleep"
          /\ valJob' = nvsJobId
          /\ published' = <<>>
          /\ slotState' = slotState
          /\ nvsJobId' = nvsJobId]_vars

C4_Witness ==
    /\ mainPc = "running"
    /\ bootJob \in JobIds
    /\ bootSlot = "Unverified"
    /\ valPc = "sleep"
    /\ in_progress

(* C5: reconciliation with no persisted job id changes nothing, whatever  *)
(* the slot state: in_progress stays false, nothing is reported, the slot *)
(* markers and the store are unchanged, no validation task is spawned.    *)
C5_ReconcileNoJob ==
    [][(Reconciles /\ nvsJobId = NoJob) =>
          /\ in_progress' = FALSE
          /\ published' = <<>>
          /\ slotState' = slotState
          /\ nvsJobId' = NoJob
          /\ spawned' = 0
          /\ valPc' = "none"]_vars

C5_Witness ==
    /\ mainPc = "running"
    /\ bootJob = NoJob
    /\ slotState[running] = "Unverified"
    /\ notified = 0

(* C6: when the validation task found the channel connected and has run   *)
(* to its end, the running slot is marked valid, exactly one Success was  *)
(* reported, for the pending job id, the persisted job id is removed and  *)
(* the device has not been reset.                                          *)
C6_ValidationSuccess ==
    valPc = "done" =>
       /\ valConnected
       /\ slotState[running] = "Valid"
       /\ CountStatus(published, valJob, "success") = 1
       /\ \A i \in 1..Len(published) :
            published[i].status = "success" => published[i].ota_job_id = valJob
       /\ nvsJobId = NoJob
       /\ resetReq = "none"

C6_Witness ==
    /\ valPc = "done"
    /\ valJob \in JobIds
    /\ slotState[running] = "Valid"
    /\ published = <<StatusMsg(valJob, "success", "Firmware verified successfully")>>

(* C7: after a validation that succeeded, in_progress is false again, so  *)
(* a later Apply is not rejected as already in progress.                   *)
C7_FlagClearedAfterValidation ==
    valPc = "done" => in_progress = FALSE

(* C8: when the validation task finds the channel not connected it        *)
(* reports no status, marks the running slot invalid and resets; the      *)
(* persisted job id is still there when the next boot starts.              *)
C8_ValidationFailure ==
    /\ valPc = "rollback" =>
          /\ ~valConnected
          /\ published = <<>>
          /\ nvsJobId = valJob
    /\ resetReq = "rollback" =>
          /\ valPc = "rollback"
          /\ slotState[running] = "Invalid"
          /\ bootPartition = Other(running)
    /\ (bootCause = "rollback" /\ mainPc = "boot") =>
          /\ nvsJobId \in JobIds
          /\ slotState[Other(running)] = "Invalid"

C8_Witness ==
    /\ bootCause = "rollback"
    /\ mainPc = "boot"
    /\ nvsJobId \in JobIds
    /\ slotState[Other(running)] = "Invalid"

(* C9: after a failed validation that resets into a previous slot that is *)
(* Valid, with the job id still persisted, the next reconciliation        *)
(* reports Rejected for that job id and clears it: the job id is          *)
(* eventually cleared and in_progress is false.                            *)
C9_RollbackCompletes ==
    (resetReq = "rollback" /\ slotState[Other(running)] = "Valid" /\ nvsJobId \in JobIds)
       ~> (/\ mainPc = "running"
           /\ bootJob \in JobIds
           /\ bootSlot = "Valid"
           /\ CountStatus(published, bootJob, "rejected") = 1
           /\ nvsJobId = NoJob
           /\ in_progress = FALSE)

C9_Witness ==
    /\ bootCause = "rollback"
    /\ mainPc = "running"
    /\ bootJob \in JobIds
    /\ bootSlot = "Valid"
    /\ published = <<StatusMsg(bootJob, "rejected", "Firmware rolled back")>>
    /\ nvsJobId = NoJob
    /\ in_progress = FALSE

(* C10: for a content length L delivered in reads summing to L, the bytes *)
(* written to the update target are the L bytes of the image in arrival   *)
(* order, and the job id is persisted exactly once, only after the last   *)
(* byte is written and the update completed.  While the loop runs the     *)
(* target holds the bytes delivered so far; for L > 0 the loop is left as *)
(* soon as all L bytes are delivered.                                      *)
C10_DownloadLoop ==
    \A t \in ApplyThreads :
       /\ pc[t] = "loop" =>
             /\ target = ImageBytes(0, delivered[t])
             /\ total_read_len[t] = delivered[t]
             /\ contentLen[t] > 0 => delivered[t] < contentLen[t]
       /\ pc[t] \in {"complete", "save", "delay"} =>
             /\ target = ImageBytes(0, contentLen[t])
             /\ Len(target) = image_len[t]
       /\ pc[t] \in {"lock", "check", "submit", "loop", "complete", "save"} => saves[t] = 0
       /\ pc[t] = "delay" =>
             /\ saves[t] = 1
             /\ nvsJobId = job[t]
             /\ bootPartition = Other(running)

C10_Witness ==
    \E t \in ApplyThreads :
       /\ pc[t] = "delay"
       /\ zeroReads > 0
       /\ target = <<1, 2>>
       /\ saves[t] = 1

(* C11: a reset at any step between the start of the image write and the  *)
(* end of validation never loses the pending update: a slot that boots    *)
(* Unverified has a persisted job id, and while the device runs an        *)
(* Unverified slot reconciliation has found the job and a validation task *)
(* tracks it.                                                              *)
C11_PendingUpdateTracked ==
    /\ (Powered /\ mainPc = "boot" /\ slotState[running] = "Unverified") =>
          nvsJobId \in JobIds
    /\ (Powered /\ mainPc = "running" /\ slotState[running] = "Unverified") =>
          /\ bootJob \in JobIds
          /\ spawned = 1

(***************************************************************************)
(* The router and the agent.                                               *)
(***************************************************************************)
CountCalls(o, d) == Cardinality({i \in 1..Len(calls[o]) : calls[o][i].device = d})
CallSet(o) == {calls[o][i] : i \in 1..Len(calls[o])}
StateTopic == Topic(NodeId, "params/local")
CountTopic(log, suffix) == Cardinality({i \in 1..Len(log) : log[i].topic.suffix = suffix})

(* what a handling that ran to its end has invoked: each device of the     *)
(* node that is a key of the mapping and has a callback, once              *)
RoutedOnce(o) ==
    \A d \in NodeDevices :
       CountCalls(o, d) = IF d \in DOMAIN payload[o] /\ devCb[d] # NoCb THEN 1 ELSE 0

(* C12: while a remote update is handled, a callback is invoked only for a *)
(* device that is a key of the payload, with exactly that device's submap  *)
(* and at most once; when the handler returns, every device of the node    *)
(* that the payload names (and that has a callback) was invoked exactly    *)
(* once.                                                                   *)
C12_RemoteRouting ==
    /\ \A i \in 1..Len(calls["remote"]) :
          /\ calls["remote"][i].device \in DOMAIN payload["remote"]
          /\ calls["remote"][i].params = payload["remote"][calls["remote"][i].device]
    /\ \A d \in NodeDevices : CountCalls("remote", d) <= 1
    /\ rpc["remote"] = "done" => RoutedOnce("remote")

C12_Witness ==
    /\ rpc["remote"] = "done"
    /\ DOMAIN payload["remote"] = {"LED", "Fan"}
    /\ devCb["LED"] # NoCb
    /\ devCb["Fan"] = NoCb
    /\ calls["remote"] = <<Call("LED", [Power |-> FALSE])>>

(* C13: a remote update that names a device the node does not have is      *)
(* decoded, the unknown name raises nothing (the handler leaves its loop   *)
(* only by returning or inside the callback of a device of the node), and  *)
(* when the handler returns every known device of the payload was invoked  *)
(* exactly once with its submap.                                           *)
C13_UnknownDeviceSkipped ==
    "Ghost" \in DOMAIN payload["remote"] =>
       /\ rpc["remote"] # "undecoded"
       /\ rpc["remote"] = "panicked" => cur["remote"] \in NodeDevices
       /\ rpc["remote"] = "done" =>
             \A d \in (DOMAIN payload["remote"]) \cap NodeDevices :
                devCb[d] # NoCb => Call(d, payload["remote"][d]) \in CallSet("remote")
       /\ rpc["remote"] = "done" =>
             Len(calls["remote"]) =
                Cardinality({d \in (DOMAIN payload["remote"]) \cap NodeDevices : devCb[d] # NoCb})

C13_Witness ==
    /\ rpc["remote"] = "done"
    /\ DOMAIN payload["remote"] = DeviceKeys
    /\ Len(calls["remote"]) = 2

(* C14: a write of the read-only config property is answered with a       *)
(* failure status and invokes no callback.                                 *)
C14_ReadOnlyWriteFails ==
    (rpc["local"] = "done" /\ wire["local"].name = "config") =>
       /\ setStatus = "Failure"
       /\ calls["local"] = <<>>

(* C15: when a write of the params property and a remote update carry the  *)
(* same mapping in the same text, and both have been handled, the local    *)
(* write has invoked the same callbacks with the same submaps, once each,  *)
(* as the remote update.                                                   *)
C15_OriginIndependence ==
    (/\ wire["local"].name = "params"
     /\ payload["local"] = payload["remote"]
     /\ wire["local"].escaped = wire["remote"].escaped
     /\ rpc["remote"] = "done"
     /\ rpc["local"] \in {"done", "undecoded"}) =>
       /\ CallSet("local") = CallSet("remote")
       /\ Len(calls["local"]) = Len(calls["remote"])

(* C16: when a callback has called update_and_report, the thread's last    *)
(* publication is {device: params} for the device and the submap of the    *)
(* callback, it is the only one for that device in this handling, and      *)
(* every publication of a delivery thread is on the node's state-changed   *)
(* topic; this holds on the remote and on the local-control thread alike.  *)
C16_ReportPublishesOnce ==
    \A o \in Origins :
       /\ \A i \in 1..Len(outbound[o]) : outbound[o][i].topic = StateTopic
       /\ rpc[o] = "reported" =>
             /\ Len(outbound[o]) > 0
             /\ outbound[o][Len(outbound[o])] =
                   Msg(StateTopic, [device |-> cur[o], params |-> payload[o][cur[o]]])
             /\ Cardinality({i \in 1..Len(outbound[o]) :
                                outbound[o][i].body.device = cur[o]}) = 1

C16_Witness ==
    /\ rpc["remote"] = "reported"
    /\ payload["remote"] = [d \in {"LED"} |-> [Power |-> TRUE]]
    /\ outbound["remote"] = <<Msg(StateTopic, [device |-> "LED", params |-> [Power |-> TRUE]])>>
    /\ rpc["local"] = "reported"

(* C17: an init call on an initialised agent returns AlreadyInitialized    *)
(* and leaves the agent as it is; an init call on an uninitialised agent   *)
(* either succeeds and creates the agent or fails on the node id and       *)
(* leaves it uninitialised; an agent, once created, stays.                 *)
C17_InitOnce ==
    [][/\ (inits' # inits) =>
             IF agent # NoAgent
             THEN /\ lastInit' = "AlreadyInitialized"
                  /\ agent' = agent
             ELSE \/ /\ lastInit' = "Ok"
                     /\ agent' = [node_id |-> NodeId, node |-> FALSE, local_ctrl |-> FALSE]
                  \/ /\ lastInit' = "FactoryError"
                     /\ agent' = NoAgent
       /\ (agent # NoAgent) => (agent' # NoAgent)]_vars

C17_Witness ==
    /\ lastInit = "AlreadyInitialized"
    /\ agent.node
    /\ inits = 3

(* C18: the node configuration and the initial parameter values are each   *)
(* published at most once, by start; once the remote-parameter             *)
(* subscription is installed both have been published, in that order, and  *)
(* nothing a delivery thread publishes is on either topic.                 *)
C18_StartupPublishedOnce ==
    /\ CountTopic(outbound["main"], "config") <= 1
    /\ CountTopic(outbound["main"], "params/local/init") <= 1
    /\ subscribed =>
          outbound["main"] = <<Msg(Topic(NodeId, "config"), devParams),
                               Msg(Topic(NodeId, "params/local/init"), devParams)>>
    /\ \A o \in Origins :
          /\ CountTopic(outbound[o], "config") = 0
          /\ CountTopic(outbound[o], "params/local/init") = 0

C18_Witness ==
    /\ startPc = "started"
    /\ rpc["remote"] = "done"
    /\ rpc["local"] = "reported"
    /\ Len(outbound["remote"]) = 2

(* C19: a Device never holds two parameters of the same name.              *)
C19_ParamNamesUnique ==
    \A d \in NodeDevices :
       \A i, j \in 1..Len(devParams[d]) :
          i # j => devParams[d][i] # devParams[d][j]

(* C20: a thread whose publish returned an error keeps running.            *)
C20_PublishFailureSurvived ==
    \A o \in Origins : rpc[o] # "panicked"

(***************************************************************************)
(* The OTA engine: failures, ordering, termination.                        *)
(***************************************************************************)
LastStatus(pub, j) ==
    LET idx == {i \in 1..Len(pub) : pub[i].ota_job_id = j} IN
    IF idx = {} THEN "none"
    ELSE pub[CHOOSE i \in idx : \A k \in idx : k <= i].status

(* C21: when the download loop of an invocation ends without the image     *)
(* being complete and without a reset (a read or a write failed),          *)
(* apply_ota has returned the error, the persisted job id, the slots and   *)
(* the reset request are as they were, the lock is free and in_progress is *)
(* false, and the thread is back waiting for notifications.                *)
C21_FailedReadAbortsAttempt ==
    [][\A t \in ApplyThreads :
          (pc[t] = "loop" /\ pc'[t] = "idle" /\ boots' = boots) =>
             /\ result'[t] = "err"
             /\ nvsJobId' = nvsJobId
             /\ slotState' = slotState
             /\ bootPartition' = bootPartition
             /\ resetReq' = "none"
             /\ lockHolder' = NoThread
             /\ in_progress' = FALSE
             /\ published' = published]_vars

C21_Witness ==
    \E t, u \in ApplyThreads :
       /\ t # u
       /\ result[t] = "err"
       /\ pc[t] = "idle"
       /\ Len(published) = 2
       /\ pc[u] = "loop"
       /\ ~overlapped[u]
       /\ delivered[u] > 0

(* C22: a job whose last reported status is in-progress has an invocation  *)
(* still working on it: an attempt that has ended left a terminal status.  *)
C22_FailureReported ==
    \A j \in JobIds :
       LastStatus(published, j) = "in-progress" =>
          \E t \in ApplyThreads : job[t] = j /\ pc[t] \in {"loop", "complete", "save", "delay"}

(* C23: while an invocation is downloading, in_progress is true.           *)
C23_DownloadingSetsFlag ==
    \A t \in ApplyThreads : pc[t] = "loop" => in_progress

StartMsg(j) == StatusMsg(j, "in-progress", "Starting OTA download")
RebootMsg(j) == StatusMsg(j, "in-progress", "Download Complete. Rebooting to new firmware")
Reported(m) == \E i \in 1..Len(published) : published[i] = m

(* C24: in an invocation of apply_ota, the "Starting OTA download" report  *)
(* is out before anything is written to the update target; the job id is   *)
(* persisted only once the update is completed (the new slot is the boot   *)
(* slot); the "Rebooting" report is out only once the job id is persisted; *)
(* apply_ota asks for the reset after all of these, and the boot that      *)
(* follows its reset finds the job id.                                     *)
C24_ApplyOrdering ==
    /\ \A t \in ApplyThreads :
          /\ pc[t] \in {"loop", "complete", "save", "delay"} => Reported(StartMsg(job[t]))
          /\ pc[t] \in {"loop", "complete", "save"} =>
                /\ saves[t] = 0
                /\ ~Reported(RebootMsg(job[t]))
                /\ resetReq # "apply"
          /\ pc[t] \in {"loop", "complete"} => nvsJobId # job[t]
          /\ pc[t] = "delay" =>
                /\ slotState[Other(running)] = "Unverified"
                /\ bootPartition = Other(running)
                /\ nvsJobId = job[t]
                /\ published[Len(published)] = RebootMsg(job[t])
    /\ target # <<>> => \E t \in ApplyThreads : lockHolder = t /\ Reported(StartMsg(job[t]))
    /\ \A j \in JobIds : Reported(RebootMsg(j)) => nvsJobId = j
    /\ resetReq = "apply" => \E t \in ApplyThreads : pc[t] = "delay"
    /\ (Powered /\ bootCause = "apply" /\ mainPc = "boot") =>
          /\ nvsJobId \in JobIds
          /\ slotState[running] = "Unverified"

C24_Witness ==
    /\ Powered
    /\ bootCause = "apply"
    /\ mainPc = "boot"
    /\ nvsJobId = "j2"
    /\ running = 1

(* C25: the download loop of every invocation terminates, whatever the     *)
(* advertised length, once the server has delivered the bytes.             *)
C25_LoopTerminates ==
    \A t \in ApplyThreads : (pc[t] = "loop") ~> (pc[t] # "loop")

(* C26: reconciliation with a persisted job id and the running slot        *)
(* neither Valid nor Unverified removes the job id, leaves in_progress     *)
(* false, reports nothing and spawns no validation task, and start goes on *)
(* (manage_rollback returned Ok).                                          *)
C26_ReconcileOther ==
    [][(Reconciles /\ nvsJobId # NoJob /\ slotState[running] \notin {"Valid", "Unverified"}) =>
          /\ nvsJobId' = NoJob
          /\ in_progress' = FALSE
          /\ published' = published
          /\ spawned' = 0
          /\ valPc' = "none"
          /\ slotState' = slotState
          /\ resetReq' = "none"]_vars

C26_Witness ==
    /\ mainPc = "running"
    /\ bootJob \in JobIds
    /\ bootSlot \notin {"Valid", "Unverified", "unread"}
    /\ nvsJobId = NoJob
    /\ published = <<>>

(* C27: no notification is handled before this boot's reconciliation has   *)
(* run, reconciliation does not run again in the same boot, and the step   *)
(* that starts a download is never taken while a job id is persisted and   *)
(* the running slot is Unverified.                                         *)
C27_ReconcileBeforeApply ==
    [][/\ (mainPc = "running" /\ boots' = boots) => (mainPc' = "running" /\ bootJob' = bootJob)
       /\ \A t \in ApplyThreads :
             /\ pc'[t] # "idle" => (mainPc' = "running" \/ ~Powered')
             /\ (pc[t] = "submit" /\ pc'[t] = "loop") =>
                   ~(nvsJobId # NoJob /\ slotState[running] = "Unverified")]_vars

C27_Witness ==
    /\ Powered
    /\ mainPc = "running"
    /\ bootJob \in JobIds
    /\ bootSlot = "Unverified"
    /\ \E t \in ApplyThreads : result[t] = "already"

C29_CallbacksSerialized ==
    ~(/\ rpc["remote"] \in {"incb", "reported"}
      /\ rpc["local"] \in {"incb", "reported"}
      /\ cur["remote"] = cur["local"])

(* C30: a call of execute_callback on a Device without a callback invokes  *)
(* nothing, publishes nothing and leaves the params and the caller as they *)
(* are; on a Device with callbacks registered it invokes the one           *)
(* registered last, once, with the submap.                                 *)
C30_ExecuteCallback ==
    [][(handled' = handled + 1) =>
          LET d == CHOOSE x \in DOMAIN payload'["local"] : TRUE IN
          /\ devParams' = devParams
          /\ outbound' = outbound
          /\ IF regs[d] = <<>>
             THEN /\ calls' = calls
                  /\ rpc' = rpc
             ELSE /\ calls'["local"] =
                        Append(calls["local"],
                               [device |-> d, params |-> payload'["local"][d],
                                cb |-> regs[d][Len(regs[d])]])
                  /\ rpc'["local"] = "incb"]_vars

C30_Witness ==
    /\ handled = 2
    /\ regs["LED"] = <<1, 2>>
    /\ regs["Fan"] = <<>>
    /\ calls["local"] = <<[device |-> "LED", params |-> [Power |-> TRUE], cb |-> 2]>>

(* C31: the response to GetPropertyValues has exactly one entry per        *)
(* requested index, in request order, and each entry carries the name,     *)
(* type and flags of the registered local property at that index (config   *)
(* or params) with the bytes the get accessor produces for that name.      *)
C31_GetPropertyValues ==
    ctrlResp.msg = "RespGetPropVals" =>
        /\ Len(ctrlResp.props) = Len(ctrlReq.indices)
        /\ \A k \in 1..Len(ctrlReq.indices) :
              LET prop == Registry[ctrlReq.indices[k] + 1]
              IN  ctrlResp.props[k] = [name |-> prop.name, type |-> prop.type,
                                       flags |-> prop.flags,
                                       value |-> local_ctrl_get_val(prop.name)]


(* C32: in the validation task, Success is reported only after the        *)
(* running slot has been marked valid, and the job id is removed only      *)
(* after Success has been reported for it; when marking the slot valid     *)
(* fails, no Success is reported, the job id stays persisted, the slot     *)
(* stays unverified and the device is not reset.                           *)
C32_ValidationOrder ==
    [][/\ (/\ Len(published') = Len(published) + 1
           /\ published'[Len(published')].status = "success")
             => /\ slotState[running] = "Valid"
                /\ nvsJobId = valJob
       /\ (valPc # "none" /\ nvsJobId # NoJob /\ nvsJobId' = NoJob)
             => /\ CountStatus(published, valJob, "success") = 1
                /\ slotState[running] = "Valid"
       /\ valPc' = "markfailed"
             => /\ \A i \in 1..Len(published') : published'[i].status # "success"
                /\ nvsJobId' = valJob
                /\ nvsJobId' \in JobIds
                /\ slotState'[running] = "Unverified"
                /\ resetReq' = "none"
       /\ valPc = "markfailed" => valPc' \in {"markfailed", "none"}]_vars

C32_Witness ==
    /\ valPc = "markfailed"
    /\ valConnected
    /\ valJob \in JobIds
    /\ nvsJobId = valJob
    /\ slotState[running] = "Unverified"
    /\ published = <<>>
    /\ resetReq = "none"


(* C33: add_attribute(name, value) on a Device that has no attribute      *)
(* name returns normally and leaves the attributes mapping containing      *)
(* name -> value; every other attribute and every other field of the       *)
(* Device, and every other Device, is unchanged.                           *)
C33_AddAttribute ==
    [][\A d \in NodeDevices, name \in AttrNames, value \in AttrValues :
          (add_attribute(d, name, value) /\ name \notin DOMAIN devAttrs[d])
             => /\ attrCall'.result = "returned"
                /\ name \in DOMAIN devAttrs'[d]
                /\ devAttrs'[d][name] = value
                /\ \A x \in DOMAIN devAttrs[d] :
                      x \in DOMAIN devAttrs'[d] /\ devAttrs'[d][x] = devAttrs[d][x]
                /\ DOMAIN devAttrs'[d] = DOMAIN devAttrs[d] \cup {name}
                /\ \A e \in NodeDevices \ {d} : devAttrs'[e] = devAttrs[e]
                /\ UNCHANGED <<devParams, devCb, regs>>]_vars


(* C34: when poll detects a release after the button was held for t      *)
(* milliseconds, it invokes at most one registered callback, and a         *)
(* callback registered with interval i is invoked only if i <= t (the      *)
(* 3000 ms provisioning reset is never fired by a shorter press); after    *)
(* the release the driver is back in the not-pressed state.                *)
C34_PressRelease ==
    lastPoll.found = "release" =>
        /\ Len(lastPoll.invoked) <= 1
        /\ \A k \in 1..Len(lastPoll.invoked) :
              /\ \E j \in 1..Len(callbacks) : callbacks[j] = lastPoll.invoked[k]
              /\ lastPoll.invoked[k].interval <= lastPoll.interval
        /\ pin_pressed_micros = 0
        /\ next_press_interval = 0


====
